---- MODULE Spec2Model ----
(***************************************************************************)
(* WorkTracker (src/main.py): the store gateway (db_worker and             *)
(* send_db_command), the Database methods behind it, and the two-way       *)
(* synchronisation of the local tasks table with a Google Tasks list.      *)
(***************************************************************************)
EXTENDS Integers, Sequences, FiniteSets, TLC

\* ------------------------------------------------------------------ bounds
\* Caller threads of the gateway specification (UI thread, tray thread, ...).
NumCallers == 2
\* Commands submitted in one behaviour of the gateway specification.
MaxCmds == 3
\* Rows ever inserted into the tasks table, and tasks ever created remotely.
MaxTasks == 2
MaxRemote == 2
\* Timestamps are 1..MaxTime: the order of the last_modified strings.
MaxTime == 2
\* Invocations of sync_google_tasks, changes made to the tasks (by the user
\* in the to-do list, by other clients on the remote side), and remote calls
\* that fail, in one behaviour.
MaxRuns == 2
MaxChanges == 2
MaxFailures == 1
\* execute_google_api_call: the largest max_retries and initial_backoff passed.
MaxRetries == 3
MaxBackoff == 2
\* The tasks other clients put into the remote list before it is fetched.
MaxListSize == 101
\* Presses of the "Sync with Google" button waiting in the event queue.
MaxPresses == 1

\* ------------------------------------------------------------- value sets
NULL == "NULL"
CallerIds == 1..NumCallers
\* The Tk main thread, as a caller of the gateway.
UI == 1
\* The thread of the tray icon (line 405), which runs the tray menu.
Tray == 2
Times == 1..MaxTime
Titles == {"a", "b"}
\* The ids the remote service gives the tasks it creates, in order.
GidOf(n) ==
    IF n <= 8 THEN <<"R1", "R2", "R3", "R4", "R5", "R6", "R7", "R8">>[n]
    ELSE "R" \o ToString(n)

\* What a command returns: Python's None, or a value tagged with its type.
None == [t |-> "None"]
Rows(v) == [t |-> "rows", v |-> v]
IntVal(v) == [t |-> "int", v |-> v]
Str(v) == [t |-> "str", v |-> v]
Bool(v) == [t |-> "bool", v |-> v]
SameResult(x, y) == x.t = y.t /\ (x.t = "None" \/ x.v = y.v)

VARIABLES
    db_queue,      \* self.db_queue: commands waiting for the worker, oldest first
    db,            \* self.db: NULL until INIT_DB has run, then "Database"
    wpc,           \* the worker thread: "get" (blocked in db_queue.get()), "run",
                   \* or "dead" (an exception left the loop)
    cur,           \* the command the worker has taken from the queue
    result_queue,  \* the non-empty result queues, by the identity of the queue
    waiting,       \* per caller: the result queue it is blocked on, or 0
    ret,           \* per caller: what its last awaited send_db_command returned
    tasks,         \* rows of the tasks table, in rowid order
    task_seq,      \* the AUTOINCREMENT counter of the tasks table
    settings,      \* the settings table, key -> value
    categories,    \* the names in the categories table
    next_id,       \* history: the number of commands enqueued so far
    last_run,      \* history: the enqueue number of the command executed last
    open_cmds,     \* history: the commands executing against the store right now
    asked,         \* history: per caller, its last awaited command, or 0
    answer,        \* history: what the worker put for the commands in asked
    raised,        \* history: the commands whose execution raised
    pc,            \* where the UI thread is in the handler it runs ("idle": mainloop;
                   \* "exiting": mainloop has returned; "exited": the process ended)
    suspended,     \* sync_google_tasks frames waiting in wait_window (line 1431)
    presses,       \* presses of the sync button not yet dispatched by an event loop
    setup_done,    \* initial_setup has run
    load_after,    \* root.after(500, self.load_local_tasks) is pending
    task_list,     \* the local ids shown in the to-do Treeview
    edit_task,     \* toggle_task_status / toggle_task_starred: task_id
    task_list_id,  \* perform_two_way_sync: task_list_id
    deleted_google_ids, \* step 1: the tombstones still to push
    local_tasks,   \* step 2: local_tasks
    remote_tasks,  \* step 2: remote_tasks
    idx,           \* steps 3 and 4: position of the loop
    remote_lists,  \* the remote service: the ids of the user's task lists
    remote,        \* the remote service: the tasks of the list, id -> task
    remote_seq,    \* the remote service: the number of tasks ever created
    remote_clock,  \* the remote service: the last 'updated' value it assigned
    runs,          \* history: invocations of sync_google_tasks so far
    changes,       \* history: changes made by the user and by other clients so far
    failures,      \* history: failed remote calls so far
    sync_error,    \* the step whose error ended the last run ("" when none did)
    last_delete,   \* history: the last tombstone delete of the run, its outcome
                   \* and the 'updated' of the task it was asked to delete
    run_deleted_ok, \* history: ids whose remote delete succeeded in this run
    deleted_ok,    \* history: ids whose remote delete succeeded in an earlier run
    rejected,      \* history: a press made during a run has been discarded
    listed,        \* history: the value of changes when the run in progress
                   \* fetched the remote list (-1 before, and outside a run)
    settled,       \* history: the value of changes when the last run ended, if it
                   \* ended in success having listed every change (-1 otherwise)
    last_push,     \* history: the last task of the run updated remotely in step 3,
                   \* and the 'updated' value the service returned
    created,       \* history: the ids of the tasks step 3 has created remotely
    failed_calls,  \* history: the remote calls of tasks() that raised in the last
                   \* run, with the number of times each was issued
    api_call,      \* execute_google_api_call: the request, as the responses its
                   \* execute() gives in order, and the arguments max_retries
                   \* and initial_backoff
    initial_backoff, \* execute_google_api_call: initial_backoff
    attempts,      \* execute_google_api_call: the calls of api_call.execute() made
    slept,         \* execute_google_api_call: the delays of time.sleep, in order
    api_result,    \* execute_google_api_call: what it returned or raised
    exit_pc,       \* the tray thread in exit_app: "" (not entered), "destroy"
                   \* (its root.destroy() waits for the main loop), "join"
                   \* (in db_queue.join()) or "done"
    exit_at        \* history: the number of commands enqueued when exit_app
                   \* reached root.destroy() (-1 before)

storeVars == <<tasks, task_seq, settings, categories>>
gwVars == <<db_queue, db, wpc, cur, result_queue, waiting, ret, next_id,
            last_run, open_cmds, asked, answer, raised>>
uiVars == <<pc, suspended, presses, setup_done, load_after, task_list, edit_task>>
runVars == <<task_list_id, deleted_google_ids, local_tasks, remote_tasks, idx>>
remoteVars == <<remote_lists, remote, remote_seq, remote_clock>>
histVars == <<runs, changes, failures, sync_error, last_delete,
              run_deleted_ok, deleted_ok, rejected, listed, settled,
              last_push, created, failed_calls>>
callVars == <<api_call, initial_backoff, attempts, slept, api_result>>
exitVars == <<exit_pc, exit_at>>
syncVars == <<uiVars, runVars, remoteVars, histVars, callVars, exitVars>>
vars == <<gwVars, storeVars, syncVars>>

NoCmd == [id |-> 0, op |-> "", args |-> <<>>, caller |-> 0, rq |-> 0]

\* ------------------------------------------------------- class Database
\* One row of the tasks table (create_tables: the column defaults).
Row(id, title, status, starred, gid, lm, deleted) ==
    [id |-> id, title |-> title, status |-> status, starred |-> starred,
     google_task_id |-> gid, last_modified |-> lm, deleted |-> deleted]

\* The columns get_tasks selects.
TaskTuple(r) ==
    <<r.id, r.title, r.status, r.starred, r.google_task_id, r.last_modified>>

NotDeleted(r) == r.deleted = 0
IsTombstone(r) == r.deleted = 1 /\ r.google_task_id # NULL
GidTuple(r) == <<r.google_task_id>>

\* cursor.fetchall(): one tuple per row selected.
TaskTuples(rows) == [i \in 1..Len(rows) |-> TaskTuple(rows[i])]
GidTuples(rows) == [i \in 1..Len(rows) |-> GidTuple(rows[i])]

get_tasks(T) == TaskTuples(SelectSeq(T, NotDeleted))

\* get_deleted_task_ids without the test of line 2225 on google_task_id.
AllDeletedIds(T) == GidTuples(SelectSeq(T, LAMBDA r : r.deleted = 1))

get_deleted_task_ids(T) == GidTuples(SelectSeq(T, IsTombstone))

\* An insert that stores the title and the timestamp only, as for a task
\* added in the to-do list.
InsertLocalOnly(T, seq, title, lm, gid, status) ==
    Append(T, Row(seq + 1, title, "needsAction", 0, NULL, lm, 0))
insert_task(T, seq, title, lm, gid, status) ==
    Append(T, Row(seq + 1, title, status, 0, gid, lm, 0))

\* A write-back that stores the id returned and leaves last_modified alone.
StoreGoogleIdOnly(T, local_id, gid, lm) ==
    [i \in 1..Len(T) |->
        IF T[i].id = local_id THEN [T[i] EXCEPT !.google_task_id = gid]
        ELSE T[i]]
update_task_with_google_id(T, local_id, gid, lm) ==
    [i \in 1..Len(T) |->
        IF T[i].id = local_id
        THEN [T[i] EXCEPT !.google_task_id = gid, !.last_modified = lm]
        ELSE T[i]]

\* An update that takes effect and writes the column default for starred.
UpdateClearsStarred(T, local_id, title, status, starred, lm) ==
    [i \in 1..Len(T) |->
        IF T[i].id = local_id
        THEN [T[i] EXCEPT !.title = title, !.status = status, !.starred = 0,
                          !.last_modified = lm]
        ELSE T[i]]
\* The statement of update_task ends "WHERE id = ?, last_modified = ?": sqlite
\* rejects it, execute_query logs the error and the table is left as it was.
update_task(T, local_id, title, status, starred, lm) == T

mark_task_deleted(T, task_id) ==
    [i \in 1..Len(T) |->
        IF T[i].id = task_id THEN [T[i] EXCEPT !.deleted = 1] ELSE T[i]]

\* A purge whose DELETE statement matches no row.
PurgeNothing(T, gid) == T
purge_deleted_task(T, gid) ==
    LET Keep(r) == r.google_task_id # gid IN SelectSeq(T, Keep)

update_task_status(T, task_id, status, lm) ==
    [i \in 1..Len(T) |->
        IF T[i].id = task_id
        THEN [T[i] EXCEPT !.status = status, !.last_modified = lm]
        ELSE T[i]]

update_task_starred(T, task_id, starred, lm) ==
    [i \in 1..Len(T) |->
        IF T[i].id = task_id
        THEN [T[i] EXCEPT !.starred = starred, !.last_modified = lm]
        ELSE T[i]]

RowsWithId(T, task_id) == {i \in 1..Len(T) : T[i].id = task_id}

get_task_status(T, task_id) ==
    IF RowsWithId(T, task_id) = {} THEN None
    ELSE Str(T[CHOOSE i \in RowsWithId(T, task_id) : TRUE].status)

get_task_starred(T, task_id) ==
    IF RowsWithId(T, task_id) = {} THEN None
    ELSE IntVal(T[CHOOSE i \in RowsWithId(T, task_id) : TRUE].starred)

get_setting(S, key) == IF key \in DOMAIN S THEN Str(S[key]) ELSE None

\* INSERT OR REPLACE INTO settings
set_setting(S, key, value) ==
    [k \in DOMAIN S \cup {key} |-> IF k = key THEN value ELSE S[k]]

\* DELETE FROM categories WHERE name = ?
delete_category_from_db(C, name) == C \ {name}

\* create_tables, lines 2178-2181: default_categories
default_categories == {"Work", "Skill", "School"}
\* A create_tables that drops the tables and makes them anew.
RecreateTables(C) == default_categories
\* create_tables on the categories table: CREATE TABLE IF NOT EXISTS keeps the
\* rows of a table that exists; the defaults are inserted when the table has
\* no row. The tasks and settings tables are created when absent and never
\* written.
create_tables(C) == IF C = {} THEN default_categories ELSE C

\* The number of positional arguments each Database method requires, and the
\* number it accepts at most (get_tasks and insert_task have defaults).
MinArgs(op) ==
    CASE op = "get_tasks" -> 0
      [] op = "get_deleted_task_ids" -> 0
      [] op = "insert_task" -> 2
      [] op = "update_task_with_google_id" -> 3
      [] op = "update_task" -> 5
      [] op = "mark_task_deleted" -> 1
      [] op = "purge_deleted_task" -> 1
      [] op = "get_task_status" -> 1
      [] op = "get_task_starred" -> 1
      [] op = "update_task_status" -> 3
      [] op = "update_task_starred" -> 3
      [] op = "get_setting" -> 1
      [] op = "set_setting" -> 2
      [] op = "delete_category_from_db" -> 1
      [] op = "update_session" -> 3
      [] OTHER -> 0

MaxArgs(op) ==
    CASE op = "get_tasks" -> 1
      [] op = "insert_task" -> 4
      [] OTHER -> MinArgs(op)

DatabaseMethods ==
    {"get_tasks", "get_deleted_task_ids", "insert_task",
     "update_task_with_google_id", "update_task", "mark_task_deleted",
     "purge_deleted_task", "get_task_status", "get_task_starred",
     "update_task_status", "update_task_starred", "get_setting", "set_setting",
     "delete_category_from_db", "update_session"}

\* hasattr(self.db, operation_type)
HasAttr(op) == op \in DatabaseMethods

\* What raises inside the try block of db_worker: args[0] of an INIT_DB
\* without arguments (IndexError), and method(*args, **kwargs) when the
\* arguments do not fit the method (TypeError).
Raises(op, args) ==
    IF op = "INIT_DB" THEN Len(args) = 0
    ELSE Len(args) < MinArgs(op) \/ Len(args) > MaxArgs(op)

Store(T, seq, S) == [tasks |-> T, task_seq |-> seq, settings |-> S]

\* The store after method(*args).
StoreAfter(op, a) ==
    CASE op = "insert_task" ->
            Store(insert_task(tasks, task_seq, a[1], a[2],
                              IF Len(a) >= 3 THEN a[3] ELSE NULL,
                              IF Len(a) >= 4 THEN a[4] ELSE "needsAction"),
                  task_seq + 1, settings)
      [] op = "update_task_with_google_id" ->
            Store(update_task_with_google_id(tasks, a[1], a[2], a[3]),
                  task_seq, settings)
      [] op = "update_task" ->
            Store(update_task(tasks, a[1], a[2], a[3], a[4], a[5]),
                  task_seq, settings)
      [] op = "mark_task_deleted" ->
            Store(mark_task_deleted(tasks, a[1]), task_seq, settings)
      [] op = "purge_deleted_task" ->
            Store(purge_deleted_task(tasks, a[1]), task_seq, settings)
      [] op = "update_task_status" ->
            Store(update_task_status(tasks, a[1], a[2], a[3]), task_seq, settings)
      [] op = "update_task_starred" ->
            Store(update_task_starred(tasks, a[1], a[2], a[3]), task_seq, settings)
      [] op = "set_setting" ->
            Store(tasks, task_seq, set_setting(settings, a[1], a[2]))
      [] OTHER -> Store(tasks, task_seq, settings)

\* The categories table after the command, by the branch it takes.
CategoriesAfter(branch, op, a) ==
    IF branch = "init" THEN create_tables(categories)
    ELSE IF branch = "call" /\ op = "delete_category_from_db"
    THEN delete_category_from_db(categories, a[1])
    ELSE categories

\* What method(*args) returns.
ResultOf(op, a) ==
    CASE op = "get_tasks" -> Rows(get_tasks(tasks))
      [] op = "get_deleted_task_ids" -> Rows(get_deleted_task_ids(tasks))
      [] op = "insert_task" -> IntVal(task_seq + 1)
      [] op = "get_task_status" -> get_task_status(tasks, a[1])
      [] op = "get_task_starred" -> get_task_starred(tasks, a[1])
      [] op = "get_setting" -> get_setting(settings, a[1])
      [] op = "set_setting" -> Bool(TRUE)
      [] op = "delete_category_from_db" -> Bool(TRUE)
      [] op = "update_session" -> Bool(TRUE)
      [] OTHER -> None

\* ------------------------------------------------- WorkTracker: the gateway
\* A queue that hands out the newest command first (queue.LifoQueue).
TakeNewest(q) == q[Len(q)]
\* queue.Queue: put appends at the tail, get takes the head.
QueuePut(q, cmd) == Append(q, cmd)
QueueHead(q) == Head(q)
QueueRest(q) == Tail(q)

\* A second worker thread on the same queue: a command is taken while the
\* one before is still executing.
AnotherWorkerFree == TRUE
\* The worker is one thread running one loop: it is back at db_queue.get()
\* only when the command before has been executed.
WorkerAtGet == wpc = "get"

\* One result queue shared by every awaiting caller.
SharedResultQueue(id, expect_result) == IF expect_result THEN 1 ELSE 0
\* send_db_command: result_queue = queue.Queue() if expect_result else None.
\* The queue made for command id is identified by id.
NewResultQueue(id, expect_result) == IF expect_result THEN id ELSE 0

Forget(f, id) == [i \in DOMAIN f \ {id} |-> f[i]]

\* send_db_command(operation_name, args, expect_result) called by thread c:
\* the command is put on db_queue; an awaiting caller then blocks in
\* result_queue.get().
send_db_command(c, op, args, expect_result) ==
    LET id == next_id + 1
        rq == NewResultQueue(id, expect_result)
        cmd == [id |-> id, op |-> op, args |-> args, caller |-> c, rq |-> rq]
    IN  /\ waiting[c] = 0
        /\ db_queue' = QueuePut(db_queue, cmd)
        /\ next_id' = id
        /\ waiting' = [waiting EXCEPT ![c] = rq]
        /\ ret' = [ret EXCEPT ![c] = None]
        /\ asked' = [asked EXCEPT ![c] = IF expect_result THEN id ELSE 0]
        /\ answer' = Forget(answer, asked[c])
        /\ UNCHANGED <<db, wpc, cur, result_queue, last_run, open_cmds, raised>>

\* The worker is a daemon thread (line 103): it runs as long as the main
\* thread has not left the program.
ProcessAlive == pc # "exited"

\* db_worker, line 344: operation_type, args, kwargs, result_queue = db_queue.get()
WorkerGet ==
    /\ ProcessAlive
    /\ WorkerAtGet
    /\ db_queue # <<>>
    /\ cur' = QueueHead(db_queue)
    /\ db_queue' = QueueRest(db_queue)
    /\ wpc' = "run"
    /\ open_cmds' = open_cmds \cup {QueueHead(db_queue).id}
    /\ UNCHANGED <<db, result_queue, waiting, ret, next_id, last_run, asked,
                   answer, raised>>
    /\ UNCHANGED <<storeVars, syncVars>>

\* A worker that calls the method whether or not self.db is set.
CallUninitialised(cmd) ==
    IF cmd.op = "INIT_DB"
    THEN (IF Raises(cmd.op, cmd.args) THEN "except" ELSE "init")
    ELSE IF ~HasAttr(cmd.op) THEN "unknown"
    ELSE IF Raises(cmd.op, cmd.args) THEN "except" ELSE "call"
\* The branch of db_worker's try block that the command takes.
Branch(cmd) ==
    IF cmd.op = "INIT_DB"
    THEN (IF Raises(cmd.op, cmd.args) THEN "except" ELSE "init")
    ELSE IF db # NULL
    THEN (IF ~HasAttr(cmd.op) THEN "unknown"
          ELSE IF Raises(cmd.op, cmd.args) THEN "except" ELSE "call")
    ELSE "skip"

\* What db_worker puts on the command's result queue: <<>> when nothing.
WorkerPuts(cmd) ==
    IF cmd.rq = 0 THEN <<>>
    ELSE CASE Branch(cmd) = "init" -> <<>>
           [] Branch(cmd) = "call" -> <<ResultOf(cmd.op, cmd.args)>>
           [] OTHER -> <<None>>

QueuePutResult(rqs, rq, puts) ==
    IF puts = <<>> THEN rqs
    ELSE IF rq \in DOMAIN rqs THEN [rqs EXCEPT ![rq] = @ \o puts]
    ELSE rqs @@ (rq :> puts)

\* A worker without the except clause: the exception ends the thread.
Uncaught(branch) == IF branch = "except" THEN "dead" ELSE "get"
\* Where the worker is after a command that took the given branch: the
\* except clause catches what the try block raises and the loop goes on.
AfterRun(branch) == "get"

\* db_worker, lines 345-370: the try block on the command taken, its except
\* clause, and task_done.
WorkerRun ==
    /\ ProcessAlive
    /\ wpc = "run"
    /\ LET after == IF Branch(cur) = "call" THEN StoreAfter(cur.op, cur.args)
                    ELSE Store(tasks, task_seq, settings)
           puts == WorkerPuts(cur)
       IN  /\ tasks' = after.tasks
           /\ task_seq' = after.task_seq
           /\ settings' = after.settings
           /\ categories' = CategoriesAfter(Branch(cur), cur.op, cur.args)
           /\ db' = IF Branch(cur) = "init" THEN "Database" ELSE db
           /\ result_queue' = QueuePutResult(result_queue, cur.rq, puts)
           /\ answer' = IF puts # <<>> /\ \E c \in DOMAIN asked : asked[c] = cur.id
                        THEN answer @@ (cur.id :> puts[1])
                        ELSE answer
    /\ raised' = IF Branch(cur) = "except" THEN raised \cup {cur.id} ELSE raised
    /\ last_run' = cur.id
    /\ open_cmds' = open_cmds \ {cur.id}
    /\ cur' = NoCmd
    /\ wpc' = AfterRun(Branch(cur))
    /\ UNCHANGED <<db_queue, waiting, ret, next_id, asked>>
    /\ UNCHANGED syncVars

\* send_db_command, line 380: return result_queue.get()
ReceiveResult(c) ==
    /\ waiting[c] # 0
    /\ waiting[c] \in DOMAIN result_queue
    /\ ret' = [ret EXCEPT ![c] = Head(result_queue[waiting[c]])]
    /\ result_queue' =
          IF Len(result_queue[waiting[c]]) = 1
          THEN Forget(result_queue, waiting[c])
          ELSE [result_queue EXCEPT ![waiting[c]] = Tail(@)]
    /\ waiting' = [waiting EXCEPT ![c] = 0]
    /\ UNCHANGED <<db_queue, db, wpc, cur, next_id, last_run, open_cmds, asked,
                   answer, raised>>

\* ------------------------------------------- the gateway under any callers
\* The commands the callers of the gateway specification submit.
GatewayCommands ==
    { <<"INIT_DB", <<"db_path">> >>,
      <<"INIT_DB", <<>> >>,
      <<"set_setting", <<"google_task_list_id", "L1">> >>,
      <<"get_setting", <<"google_task_list_id">> >>,
      <<"get_setting", <<>> >>,
      <<"delete_category_from_db", <<"Work">> >>,
      <<"no_such_method", <<>> >> }

NoDelete == [gid |-> NULL, outcome |-> "", updated |-> 0]
NoPush == [id |-> 0, gid |-> NULL, updated |-> 0]
\* execute_google_api_call is not running / has neither returned nor raised.
NoCall == [responses |-> <<>>, max_retries |-> 0, initial_backoff |-> 0]
NoResult == [how |-> "", value |-> [kind |-> "", status |-> 0]]
\* request.execute() (lines 1449, 1462, 1474 and 1488): the request is issued
\* once, and what it raises is raised to the caller.
FailedCall(call, task, outcome) ==
    [call |-> call, task |-> task, outcome |-> outcome, attempts |-> 1]

\* The database file and the remote list outlive the program. A session
\* starts on a new file, the account holding a task list or none, or on what
\* an earlier session left after adding a task and synchronising it.
FreshStart(lists) ==
    [tasks |-> <<>>, task_seq |-> 0, settings |-> <<>>, categories |-> {},
     remote_lists |-> lists, remote |-> <<>>, remote_seq |-> 0]
SyncedStart ==
    [tasks |-> <<Row(1, "a", "needsAction", 0, GidOf(1), 1, 0)>>,
     task_seq |-> 1,
     settings |-> set_setting(<<>>, "google_task_list_id", "L1"),
     categories |-> default_categories,
     remote_lists |-> {"L1"},
     remote |-> (GidOf(1) :>
                    [title |-> "a", status |-> "needsAction", updated |-> 1]),
     remote_seq |-> 1]
Starts == {FreshStart({}), FreshStart({"L1"}), SyncedStart}

Init ==
    /\ \E start \in Starts :
          /\ tasks = start.tasks
          /\ task_seq = start.task_seq
          /\ settings = start.settings
          /\ categories = start.categories
          /\ remote_lists = start.remote_lists
          /\ remote = start.remote
          /\ remote_seq = start.remote_seq
    /\ db_queue = <<>>
    /\ db = NULL
    /\ wpc = "get"
    /\ cur = NoCmd
    /\ result_queue = <<>>
    /\ waiting = [c \in CallerIds |-> 0]
    /\ ret = [c \in CallerIds |-> None]
    /\ next_id = 0
    /\ last_run = 0
    /\ open_cmds = {}
    /\ asked = [c \in CallerIds |-> 0]
    /\ answer = <<>>
    /\ raised = {}
    /\ pc = "idle"
    /\ suspended = 0
    /\ presses = 0
    /\ setup_done = FALSE
    /\ load_after = FALSE
    /\ task_list = <<>>
    /\ edit_task = 0
    /\ task_list_id = NULL
    /\ deleted_google_ids = <<>>
    /\ local_tasks = <<>>
    /\ remote_tasks = <<>>
    /\ idx = 0
    /\ remote_clock = 1
    /\ runs = 0
    /\ changes = 0
    /\ failures = 0
    /\ sync_error = ""
    /\ last_delete = NoDelete
    /\ run_deleted_ok = {}
    /\ deleted_ok = {}
    /\ rejected = FALSE
    /\ listed = -1
    /\ settled = -1
    /\ last_push = NoPush
    /\ created = {}
    /\ failed_calls = {}
    /\ api_call = NoCall
    /\ initial_backoff = 0
    /\ attempts = 0
    /\ slept = <<>>
    /\ api_result = NoResult
    /\ exit_pc = ""
    /\ exit_at = -1

Submit(c) ==
    /\ next_id < MaxCmds
    /\ \E cmd \in GatewayCommands, expect_result \in BOOLEAN :
          send_db_command(c, cmd[1], cmd[2], expect_result)
    /\ UNCHANGED <<storeVars, syncVars>>

Receive(c) ==
    /\ ReceiveResult(c)
    /\ UNCHANGED <<storeVars, syncVars>>

GatewayNext ==
    \/ \E c \in CallerIds : Submit(c)
    \/ \E c \in CallerIds : Receive(c)
    \/ WorkerGet
    \/ WorkerRun

GatewaySpec == Init /\ [][GatewayNext]_vars

\* ------------------------------------------------ WorkTracker: the UI thread
UISend(op, args, expect_result) ==
    /\ send_db_command(UI, op, args, expect_result)
    /\ UNCHANGED <<storeVars, callVars, exitVars>>

UIReceive ==
    /\ ReceiveResult(UI)
    /\ UNCHANGED <<storeVars, callVars, exitVars>>

IsInsert(cmd) == cmd.op = "insert_task"
\* insert_task commands the worker has not executed yet.
PendingInserts ==
    Len(SelectSeq(db_queue, IsInsert)) + (IF IsInsert(cur) THEN 1 ELSE 0)
RoomForTask == task_seq + PendingInserts < MaxTasks

FirstOf(t) == t[1]
\* load_local_tasks: the Treeview is rebuilt from the rows get_tasks returned
\* (tasks = [] when the command returned None).
TreeOf(res) ==
    IF res.t = "rows" THEN [i \in 1..Len(res.v) |-> FirstOf(res.v[i])] ELSE <<>>
Shown == {task_list[i] : i \in 1..Len(task_list)}

\* initial_setup (scheduled by __init__ with root.after): puts INIT_DB.
InitialSetup ==
    /\ pc = "idle"
    /\ ~setup_done
    /\ db_queue' = QueuePut(db_queue,
            [id |-> next_id + 1, op |-> "INIT_DB", args |-> <<"db_path">>,
             caller |-> UI, rq |-> 0])
    /\ next_id' = next_id + 1
    /\ setup_done' = TRUE
    /\ load_after' = TRUE
    /\ UNCHANGED <<db, wpc, cur, result_queue, waiting, ret, last_run,
                   open_cmds, asked, answer, raised>>
    /\ UNCHANGED <<storeVars, callVars, exitVars, pc, suspended, presses, task_list, edit_task, runVars,
                   remoteVars, histVars>>

\* The callback initial_setup scheduled at line 229, run by mainloop:
\* load_local_tasks.
LoadAfterSetup ==
    /\ pc = "idle"
    /\ load_after
    /\ load_after' = FALSE
    /\ UISend("get_tasks", <<>>, TRUE)
    /\ pc' = "edit_loaded"
    /\ UNCHANGED <<suspended, presses, setup_done, task_list, edit_task,
                   runVars, remoteVars, histVars>>

\* add_local_task: insert_task(title, timestamp), then load_local_tasks.
AddLocalTask ==
    /\ pc = "idle"
    /\ changes < MaxChanges
    /\ RoomForTask
    /\ \E title \in Titles, timestamp \in Times :
          UISend("insert_task", <<title, timestamp>>, FALSE)
    /\ pc' = "edit_reload"
    /\ changes' = changes + 1
    /\ UNCHANGED <<suspended, presses, setup_done, load_after, task_list, edit_task, runVars,
                   remoteVars, runs, failures, sync_error,
                   last_delete, run_deleted_ok, listed, settled, failed_calls, last_push, created, deleted_ok, rejected>>

\* delete_task_prompt, answered "Yes": mark_task_deleted, then load_local_tasks.
DeleteTask ==
    /\ pc = "idle"
    /\ changes < MaxChanges
    /\ \E task_db_id \in Shown : UISend("mark_task_deleted", <<task_db_id>>, FALSE)
    /\ pc' = "edit_reload"
    /\ changes' = changes + 1
    /\ UNCHANGED <<suspended, presses, setup_done, load_after, task_list, edit_task, runVars,
                   remoteVars, runs, failures, sync_error,
                   last_delete, run_deleted_ok, listed, settled, failed_calls, last_push, created, deleted_ok, rejected>>

\* toggle_task_status, line 724, and toggle_task_starred, line 732: the
\* awaited read of the current value.
ToggleRead(op, at) ==
    /\ pc = "idle"
    /\ changes < MaxChanges
    /\ \E task_id \in Shown :
          /\ UISend(op, <<task_id>>, TRUE)
          /\ edit_task' = task_id
    /\ pc' = at
    /\ changes' = changes + 1
    /\ UNCHANGED <<suspended, presses, setup_done, load_after, task_list, runVars, remoteVars, runs,
                   failures, sync_error, last_delete,
                   run_deleted_ok, listed, settled, failed_calls, last_push, created, deleted_ok, rejected>>

ToggleStatusRead == ToggleRead("get_task_status", "toggle_status")
ToggleStarredRead == ToggleRead("get_task_starred", "toggle_starred")

\* send_db_command returns the value read (the handler goes on below).
ToggleGot ==
    /\ pc \in {"toggle_status", "toggle_starred"}
    /\ UIReceive
    /\ pc' = IF pc = "toggle_status" THEN "put_status" ELSE "put_starred"
    /\ UNCHANGED <<suspended, presses, setup_done, load_after, task_list, edit_task, runVars,
                   remoteVars, histVars>>

\* toggle_task_status, lines 725-727.
ToggleStatusWrite ==
    /\ pc = "put_status"
    /\ LET new_status == IF SameResult(ret[UI], Str("needsAction"))
                         THEN "completed" ELSE "needsAction"
       IN  \E timestamp \in Times :
              UISend("update_task_status", <<edit_task, new_status, timestamp>>,
                     FALSE)
    /\ pc' = "edit_reload"
    /\ edit_task' = 0
    /\ UNCHANGED <<suspended, presses, setup_done, load_after, task_list, runVars, remoteVars,
                   histVars>>

\* toggle_task_starred, lines 733-735.
ToggleStarredWrite ==
    /\ pc = "put_starred"
    /\ LET new_starred_val == IF SameResult(ret[UI], IntVal(1)) THEN 0 ELSE 1
       IN  \E timestamp \in Times :
              UISend("update_task_starred",
                     <<edit_task, new_starred_val, timestamp>>, FALSE)
    /\ pc' = "edit_reload"
    /\ edit_task' = 0
    /\ UNCHANGED <<suspended, presses, setup_done, load_after, task_list, runVars, remoteVars,
                   histVars>>

\* load_local_tasks at the end of an edit: the awaited get_tasks ...
EditReload ==
    /\ pc = "edit_reload"
    /\ UISend("get_tasks", <<>>, TRUE)
    /\ pc' = "edit_loaded"
    /\ UNCHANGED <<suspended, presses, setup_done, load_after, task_list, edit_task, runVars,
                   remoteVars, histVars>>

\* ... and the Treeview rebuilt from its result.
EditLoaded ==
    /\ pc = "edit_loaded"
    /\ UIReceive
    /\ task_list' = TreeOf(ret'[UI])
    /\ pc' = "idle"
    /\ UNCHANGED <<suspended, presses, setup_done, load_after, edit_task, runVars, remoteVars,
                   histVars>>

\* ------------------------------------------------------ the remote service
\* The outcome of a remote call: it succeeds, it raises an HttpError whose
\* status is not 404, or it raises another exception (no connection, timeout).
\* HttpError 404 is what the service answers for a task it does not hold.
Injected == {"http_error", "exception"}
Outcomes == {"ok"} \cup Injected

RemoteTask(id) ==
    [id |-> id, title |-> remote[id].title, status |-> remote[id].status,
     updated |-> remote[id].updated]
Held(n) == GidOf(n) \in DOMAIN remote
\* The tasks of the list, oldest first.
RemoteItems ==
    LET ns == SelectSeq([n \in 1..remote_seq |-> n], Held)
    IN  [i \in 1..Len(ns) |-> RemoteTask(GidOf(ns[i]))]

\* tasks().list(..., maxResults=100): one page, and no nextPageToken is followed.
maxResults == 100
ListPage(items) ==
    IF Len(items) <= maxResults THEN items ELSE SubSeq(items, 1, maxResults)

\* 'updated' values the service may assign next: its clock does not go back.
Stamps == remote_clock..MaxTime

\* The program sees the remote list only in its remote calls, so a change made
\* by another client is taken where the UI thread is idle or about to call.
AtRemoteCall ==
    pc \in {"idle", "choose_list", "dialog", "delete", "remote_list", "step3"}

\* Another client creates a task in the list.
RemoteCreate ==
    /\ AtRemoteCall
    /\ changes < MaxChanges
    /\ remote_seq < MaxRemote
    /\ remote_lists # {}
    /\ \E title \in Titles, t \in Stamps :
          /\ remote' = remote @@ (GidOf(remote_seq + 1) :>
                [title |-> title, status |-> "needsAction", updated |-> t])
          /\ remote_clock' = t
    /\ remote_seq' = remote_seq + 1
    /\ changes' = changes + 1
    /\ UNCHANGED <<gwVars, storeVars, callVars, exitVars, uiVars, runVars, remote_lists, runs,
                   failures, sync_error, last_delete, run_deleted_ok,
                   deleted_ok, listed, settled, failed_calls, last_push, created, rejected>>

\* Another client changes the title or the status of a task.
RemoteEdit ==
    /\ AtRemoteCall
    /\ changes < MaxChanges
    /\ \E id \in DOMAIN remote, title \in Titles,
          status \in {"needsAction", "completed"}, t \in Stamps :
          /\ <<title, status>> # <<remote[id].title, remote[id].status>>
          /\ remote' = [remote EXCEPT ![id] =
                [title |-> title, status |-> status, updated |-> t]]
          /\ remote_clock' = t
    /\ changes' = changes + 1
    /\ UNCHANGED <<gwVars, storeVars, callVars, exitVars, uiVars, runVars, remote_lists, remote_seq,
                   runs, failures, sync_error, last_delete,
                   run_deleted_ok, listed, settled, failed_calls, last_push, created, deleted_ok, rejected>>

\* Another client deletes a task.
RemoteDelete ==
    /\ AtRemoteCall
    /\ changes < MaxChanges
    /\ \E id \in DOMAIN remote : remote' = Forget(remote, id)
    /\ changes' = changes + 1
    /\ UNCHANGED <<gwVars, storeVars, callVars, exitVars, uiVars, runVars, remote_lists, remote_seq,
                   remote_clock, runs, failures, sync_error, last_delete,
                   run_deleted_ok, listed, settled, failed_calls, last_push, created, deleted_ok, rejected>>

\* ------------------------------------------- WorkTracker.sync_google_tasks
\* ttk.dialogs.Messagebox.show_info / show_error: the box is modal, and the
\* event loop it runs until it is closed dispatches the events waiting; the
\* presses of a button of the main window are discarded by the grab. What is
\* left of them when the box is closed.
Messagebox(waiting_presses) == 0

\* A dialog shown without grab_set: the main window stays live behind it.
NoGrab == FALSE
\* choose_task_list, line 1430: choice_dialog.grab_set() confines the events
\* of the application to the dialog while wait_window runs the event loop.
GrabSet == TRUE

\* The handler returns: to the event loop of the dialog of an outer
\* sync_google_tasks when there is one, else to mainloop.
Return(error) ==
    /\ pc' = IF suspended > 0 THEN "dialog" ELSE "idle"
    /\ suspended' = IF suspended > 0 THEN suspended - 1 ELSE 0
    /\ task_list_id' = NULL
    /\ deleted_google_ids' = <<>>
    /\ local_tasks' = <<>>
    /\ remote_tasks' = <<>>
    /\ idx' = 0
    /\ sync_error' = error
    /\ last_delete' = NoDelete
    /\ deleted_ok' = deleted_ok \cup run_deleted_ok
    /\ run_deleted_ok' = {}
    /\ listed' = -1
    /\ settled' = IF pc = "sync_loaded" /\ error = "" /\ listed = changes
                  THEN changes ELSE -1
    /\ last_push' = NoPush
    /\ created' = created

\* The run ends with a message box (lines 1367, 1371, 1374 and 1437).
EndRun(error) ==
    /\ Return(error)
    /\ presses' = Messagebox(presses)
    /\ rejected' = (rejected \/ Messagebox(presses) < presses)

\* The runs in progress: the frame the UI thread executes and those suspended.
SyncPcs ==
    {"get_setting", "choose_list", "dialog", "step1", "deleted_ids", "delete",
     "step2", "local_tasks", "remote_list", "step3", "step4", "sync_reload",
     "sync_loaded"}
ActiveRuns == suspended + (IF pc \in SyncPcs THEN 1 ELSE 0)

\* sync_google_tasks, lines 1341-1356: there is no check of a run being in
\* progress, every invocation starts one.
StartRun ==
    /\ runs < MaxRuns
    /\ UISend("get_setting", <<"google_task_list_id">>, TRUE)
    /\ pc' = "get_setting"
    /\ runs' = runs + 1
    /\ failed_calls' = {}
    /\ UNCHANGED <<setup_done, load_after, task_list, edit_task, runVars, remoteVars,
                   changes, failures, sync_error, last_delete,
                   run_deleted_ok, listed, settled, last_push, created, deleted_ok, rejected>>

\* The "Sync with Google" button (line 616) pressed while mainloop is idle:
\* the press is dispatched at once.
SyncRequest ==
    /\ pc = "idle"
    /\ StartRun
    /\ UNCHANGED <<suspended, presses>>

\* The button pressed while the UI thread is inside sync_google_tasks, in a
\* remote call or in the dialog: the press waits in the event queue for the
\* next event loop.
PressDuringRun ==
    /\ pc \in SyncPcs
    /\ AtRemoteCall
    /\ presses < MaxPresses
    /\ presses' = presses + 1
    /\ UNCHANGED <<gwVars, storeVars, callVars, exitVars, pc, suspended, setup_done, load_after, task_list,
                   edit_task, runVars, remoteVars, histVars>>

\* The event loop of wait_window (line 1431) takes a press from the queue:
\* under the grab it does not reach the button, else the button's command,
\* sync_google_tasks, is called from inside the outer invocation.
DispatchPress ==
    /\ pc = "dialog"
    /\ presses > 0
    /\ presses' = presses - 1
    /\ IF GrabSet
       THEN /\ rejected' = TRUE
            /\ UNCHANGED <<gwVars, storeVars, callVars, exitVars, pc, suspended, setup_done, load_after,
                           task_list, edit_task, runVars, remoteVars, runs,
                           changes, failures, sync_error, last_delete,
                           run_deleted_ok, listed, settled, failed_calls, last_push, created, deleted_ok>>
       ELSE /\ StartRun
            /\ suspended' = suspended + 1

\* sync_google_tasks, lines 1356-1357.
SyncGotSetting ==
    /\ pc = "get_setting"
    /\ UIReceive
    /\ IF ret'[UI].t = "str"
       THEN /\ task_list_id' = ret'[UI].v
            /\ pc' = "step1"
       ELSE /\ task_list_id' = NULL
            /\ pc' = "choose_list"
    /\ UNCHANGED <<suspended, presses, setup_done, load_after, task_list, edit_task,
                   deleted_google_ids, local_tasks, remote_tasks, idx,
                   remoteVars, histVars>>

\* choose_task_list, lines 1399-1407 and 1435-1438, and lines 1359-1362 of
\* sync_google_tasks: the lists cannot be fetched, or there is none and
\* 'WorkTracker' is created and stored as the binding.
ChooseTaskList(outcome) ==
    /\ pc = "choose_list"
    /\ outcome \in Injected => failures < MaxFailures
    /\ outcome = "ok" => remote_lists = {}
    /\ IF outcome = "ok"
       THEN /\ remote_lists' = {"L1"}
            /\ UISend("set_setting", <<"google_task_list_id", "L1">>, FALSE)
            /\ task_list_id' = "L1"
            /\ pc' = "step1"
            /\ presses' = Messagebox(presses)
            /\ rejected' = (rejected \/ Messagebox(presses) < presses)
            /\ UNCHANGED <<suspended, deleted_google_ids, local_tasks,
                           remote_tasks, idx, failures, sync_error, last_delete,
                           run_deleted_ok, listed, settled, failed_calls, last_push, created, deleted_ok>>
       ELSE /\ EndRun("choose_task_list")
            /\ failures' = failures + 1
            /\ UNCHANGED <<gwVars, storeVars, callVars, exitVars, remote_lists>>
    /\ UNCHANGED <<setup_done, load_after, task_list, edit_task, remote,
                   remote_seq, remote_clock, runs, changes, failed_calls>>

\* choose_task_list, lines 1409-1431: the lists are shown in a dialog and
\* wait_window runs the event loop until the dialog is closed.
ChooseDialog ==
    /\ pc = "choose_list"
    /\ remote_lists # {}
    /\ pc' = "dialog"
    /\ UNCHANGED <<gwVars, storeVars, callVars, exitVars, suspended, presses, setup_done, load_after,
                   task_list, edit_task, runVars, remoteVars, histVars>>

\* The user presses OK, the events before it dispatched: lines 1420-1433,
\* then 1362 of sync_google_tasks.
DialogOk ==
    /\ pc = "dialog"
    /\ presses = 0
    /\ \E chosen_list_id \in remote_lists :
          /\ UISend("set_setting", <<"google_task_list_id", chosen_list_id>>,
                    FALSE)
          /\ task_list_id' = chosen_list_id
    /\ pc' = "step1"
    /\ UNCHANGED <<suspended, presses, setup_done, load_after, task_list, edit_task,
                   deleted_google_ids, local_tasks, remote_tasks, idx,
                   remoteVars, histVars>>

\* The user closes the dialog: chosen_list_id is None, lines 1359-1361.
DialogClosed ==
    /\ pc = "dialog"
    /\ presses = 0
    /\ Return("")
    /\ UNCHANGED <<presses, rejected, failed_calls>>
    /\ UNCHANGED <<gwVars, storeVars, callVars, exitVars, setup_done, load_after, task_list, edit_task,
                   remoteVars, runs, changes, failures>>

\* --------------------------------------- WorkTracker.perform_two_way_sync
\* Step 1, line 1445.
Step1Start ==
    /\ pc = "step1"
    /\ UISend("get_deleted_task_ids", <<>>, TRUE)
    /\ pc' = "deleted_ids"
    /\ UNCHANGED <<suspended, presses, setup_done, load_after, task_list, edit_task, runVars,
                   remoteVars, histVars>>

\* Step 1, line 1446: if deleted_google_ids.
Step1GotIds ==
    /\ pc = "deleted_ids"
    /\ UIReceive
    /\ IF ret'[UI].t = "rows" /\ ret'[UI].v # <<>>
       THEN /\ deleted_google_ids' = ret'[UI].v
            /\ pc' = "delete"
       ELSE /\ deleted_google_ids' = <<>>
            /\ pc' = "step2"
    /\ UNCHANGED <<suspended, presses, setup_done, load_after, task_list, edit_task, task_list_id,
                   local_tasks, remote_tasks, idx, remoteVars, histVars>>

\* A step 1 that leaves a task alone whose remote copy is the newer one.
DeleteUnlessNewer(google_id, outcome) ==
    IF outcome # "ok" THEN outcome
    ELSE IF google_id \notin DOMAIN remote THEN "404"
    ELSE IF \E i \in 1..Len(tasks) :
               /\ tasks[i].google_task_id = google_id
               /\ tasks[i].last_modified < remote[google_id].updated
         THEN "skipped"
    ELSE "ok"

\* What tasks().delete does for the task it is asked to delete.
DeleteOutcome(google_id, outcome) ==
    IF outcome # "ok" THEN outcome
    ELSE IF google_id \in DOMAIN remote THEN "ok" ELSE "404"

\* The 404 answer handled like any other HttpError: logged, no purge.
PurgesOnSuccessOnly(outcome) == outcome = "ok"
\* Step 1, lines 1449-1456: the outcomes after which the local row is purged.
PurgesOn(outcome) == outcome \in {"ok", "404"}

\* Step 1, lines 1447-1456, for one tombstone: the delete succeeds, answers
\* 404 or raises another HttpError, and the loop goes on.
DeleteTombstone(outcome) ==
    /\ pc = "delete"
    /\ outcome \in {"ok", "http_error"}
    /\ outcome \in Injected => failures < MaxFailures
    /\ LET google_id == deleted_google_ids[1][1]
           actual == DeleteOutcome(google_id, outcome)
       IN  /\ remote' = IF actual = "ok" THEN Forget(remote, google_id)
                        ELSE remote
           /\ IF PurgesOn(actual)
              THEN UISend("purge_deleted_task", <<google_id>>, FALSE)
              ELSE UNCHANGED <<gwVars, storeVars, callVars, exitVars>>
           /\ last_delete' = [gid |-> google_id, outcome |-> actual,
                               updated |-> IF google_id \in DOMAIN remote
                                           THEN remote[google_id].updated
                                           ELSE 0]
           /\ run_deleted_ok' = IF actual = "ok"
                                THEN run_deleted_ok \cup {google_id}
                                ELSE run_deleted_ok
           /\ failed_calls' =
                 IF outcome \in Injected
                 THEN failed_calls \cup {FailedCall("delete", google_id, outcome)}
                 ELSE failed_calls
    /\ failures' = IF outcome \in Injected THEN failures + 1 ELSE failures
    /\ deleted_google_ids' = Tail(deleted_google_ids)
    /\ pc' = IF Tail(deleted_google_ids) = <<>> THEN "step2" ELSE "delete"
    /\ UNCHANGED <<suspended, presses, setup_done, load_after, task_list, edit_task, task_list_id,
                   local_tasks, remote_tasks, idx, remote_lists, remote_seq,
                   remote_clock, runs, changes, sync_error, deleted_ok, listed, settled, last_push, created,
                   rejected>>

\* Step 1, line 1449, raising an exception that is no HttpError: no except
\* clause of perform_two_way_sync takes it and sync_google_tasks reports it
\* (lines 1372-1374).
DeleteTombstoneRaises ==
    /\ pc = "delete"
    /\ failures < MaxFailures
    /\ failures' = failures + 1
    /\ failed_calls' = failed_calls \cup
          {FailedCall("delete", deleted_google_ids[1][1], "exception")}
    /\ EndRun("delete")
    /\ UNCHANGED <<gwVars, storeVars, callVars, exitVars, setup_done, load_after, task_list, edit_task,
                   remoteVars, runs, changes>>

\* Step 2, line 1459.
Step2Start ==
    /\ pc = "step2"
    /\ UISend("get_tasks", <<>>, TRUE)
    /\ pc' = "local_tasks"
    /\ UNCHANGED <<suspended, presses, setup_done, load_after, task_list, edit_task, runVars,
                   remoteVars, histVars>>

\* Step 2, line 1460: iterating over local_tasks raises TypeError when the
\* command returned None.
Step2GotTasks ==
    /\ pc = "local_tasks"
    /\ UIReceive
    /\ IF ret'[UI].t = "rows"
       THEN /\ local_tasks' = ret'[UI].v
            /\ pc' = "remote_list"
            /\ UNCHANGED <<suspended, presses, task_list_id, deleted_google_ids,
                           remote_tasks, idx, sync_error, last_delete,
                           run_deleted_ok, listed, settled, failed_calls, last_push, created, deleted_ok, rejected>>
       ELSE EndRun("local_tasks")
    /\ UNCHANGED <<setup_done, load_after, task_list, edit_task, remoteVars, runs,
                   changes, failures, failed_calls>>

\* Where the run goes on with position i of step 3, or of step 4.
From3(i, lt, rt) ==
    IF i <= Len(lt) THEN <<"step3", i>>
    ELSE IF rt # <<>> THEN <<"step4", 1>> ELSE <<"sync_reload", 0>>
From4(i, rt) == IF i <= Len(rt) THEN <<"step4", i>> ELSE <<"sync_reload", 0>>

\* A list call under "except Exception" that logs the error and leaves the
\* run with no remote task.
ListErrorLogged(outcome) == FALSE
\* Step 2, line 1462: the call is under no try of perform_two_way_sync, so
\* what it raises leaves the function.
ListRaises(outcome) == outcome \in Injected

\* Step 2, lines 1462-1464: the list is fetched, or the call raises and the
\* run ends in sync_google_tasks (lines 1369-1374).
Step2List(outcome) ==
    /\ pc = "remote_list"
    /\ outcome \in Injected => failures < MaxFailures
    /\ failures' = IF outcome = "ok" THEN failures ELSE failures + 1
    /\ failed_calls' =
          IF outcome = "ok" THEN failed_calls
          ELSE failed_calls \cup {FailedCall("list", task_list_id, outcome)}
    /\ IF ListRaises(outcome)
       THEN EndRun("list")
       ELSE LET items == IF outcome = "ok" THEN ListPage(RemoteItems)
                         ELSE <<>>
            IN  /\ remote_tasks' = items
                /\ listed' = changes
                /\ pc' = From3(1, local_tasks, items)[1]
                /\ idx' = From3(1, local_tasks, items)[2]
                /\ UNCHANGED <<suspended, presses, task_list_id,
                               deleted_google_ids, local_tasks, sync_error,
                               last_delete, run_deleted_ok, deleted_ok,
                               rejected, settled, last_push, created>>
    /\ UNCHANGED <<gwVars, storeVars, callVars, exitVars, setup_done, load_after, task_list,
                   edit_task, remoteVars, runs, changes>>

\* local_tasks_map and remote_tasks_map (lines 1460 and 1464): in a dict
\* comprehension the last task with a key is the one kept.
Last(S) == CHOOSE i \in S : \A j \in S : j <= i
LocalAt(lt, google_id) == {i \in 1..Len(lt) : lt[i][5] = google_id}
InLocalMap(lt, google_id) == LocalAt(lt, google_id) # {}
LocalMap(lt, google_id) == lt[Last(LocalAt(lt, google_id))]
RemoteAt(rt, google_id) == {i \in 1..Len(rt) : rt[i].id = google_id}
InRemoteMap(rt, google_id) == RemoteAt(rt, google_id) # {}
RemoteMap(rt, google_id) == rt[Last(RemoteAt(rt, google_id))]

\* A step 3 that pushes every task that differs from its remote copy.
PushWhenDifferent(t) ==
    IF t[5] = NULL THEN "create"
    ELSE IF InRemoteMap(remote_tasks, t[5])
            /\ t[6] # RemoteMap(remote_tasks, t[5]).updated THEN "update"
    ELSE "none"
\* A step 3 that pushes a task whose google id is not in the list fetched.
PushOrphans(t) ==
    IF t[5] = NULL THEN "create"
    ELSE IF ~InRemoteMap(remote_tasks, t[5])
            \/ t[6] > RemoteMap(remote_tasks, t[5]).updated THEN "update"
    ELSE "none"
\* Step 3, lines 1470, 1481 and 1485: what is done for a local task.
Step3Kind(t) ==
    IF t[5] = NULL THEN "create"
    ELSE IF InRemoteMap(remote_tasks, t[5])
            /\ t[6] > RemoteMap(remote_tasks, t[5]).updated THEN "update"
    ELSE "none"

\* A try around the whole loop: an error leaves steps 3 and 4.
LeaveLoopOnError(outcome) ==
    IF outcome = "ok" THEN From3(idx + 1, local_tasks, remote_tasks)
    ELSE <<"sync_reload", 0>>
\* Step 3, lines 1478-1479 and 1491-1492: the except clause is inside the for
\* loop; the error is logged and the loop goes on with the next task.
NextAfter3(outcome) == From3(idx + 1, local_tasks, remote_tasks)

Advance3(outcome) ==
    /\ pc' = NextAfter3(outcome)[1]
    /\ idx' = NextAfter3(outcome)[2]
    /\ UNCHANGED <<suspended, presses, setup_done, load_after, task_list, edit_task, task_list_id,
                   deleted_google_ids, local_tasks, remote_tasks, remote_lists,
                   runs, changes, sync_error, last_delete,
                   run_deleted_ok, listed, settled, deleted_ok, rejected>>

\* Step 3: a task that has a google id and is not newer than the remote copy,
\* or whose id is not in the list fetched.
Step3None ==
    /\ pc = "step3"
    /\ Step3Kind(local_tasks[idx]) = "none"
    /\ Advance3("ok")
    /\ UNCHANGED <<gwVars, storeVars, callVars, exitVars, remote, remote_seq, remote_clock, failures,
                   last_push, created, failed_calls>>

\* Step 3, lines 1470-1479: a task without google id is created remotely, and
\* the id and 'updated' returned are written to the row; an exception is logged.
Step3Create(outcome) ==
    /\ pc = "step3"
    /\ Step3Kind(local_tasks[idx]) = "create"
    /\ outcome \in Injected => failures < MaxFailures
    /\ outcome = "ok" => remote_seq < MaxRemote
    /\ LET t == local_tasks[idx]
           new_google_id == GidOf(remote_seq + 1)
       IN  IF outcome = "ok"
           THEN /\ \E new_last_mod \in Stamps :
                      /\ remote' = remote @@ (new_google_id :>
                            [title |-> t[2], status |-> t[3],
                             updated |-> new_last_mod])
                      /\ remote_clock' = new_last_mod
                      /\ UISend("update_task_with_google_id",
                                <<t[1], new_google_id, new_last_mod>>, FALSE)
                /\ remote_seq' = remote_seq + 1
                /\ UNCHANGED <<failures, failed_calls>>
           ELSE /\ failures' = failures + 1
                /\ failed_calls' = failed_calls \cup
                      {FailedCall("insert", t[1], outcome)}
                /\ UNCHANGED <<gwVars, storeVars, callVars, exitVars, remote, remote_seq,
                               remote_clock>>
    /\ UNCHANGED last_push
    /\ created' = IF outcome = "ok" THEN created \cup {GidOf(remote_seq + 1)}
                  ELSE created
    /\ Advance3(outcome)

\* Step 3, lines 1481-1492: a task newer than its remote copy is pushed, and
\* the 'updated' returned is written to the row with update_task; an exception
\* (the task is gone remotely: 404) is logged.
Step3Update(outcome) ==
    /\ pc = "step3"
    /\ Step3Kind(local_tasks[idx]) = "update"
    /\ outcome \in Injected => failures < MaxFailures
    /\ LET t == local_tasks[idx]
       IN  IF outcome = "ok" /\ t[5] \in DOMAIN remote
           THEN /\ \E updated \in Stamps :
                      /\ remote' = [remote EXCEPT ![t[5]] =
                            [title |-> t[2], status |-> t[3],
                             updated |-> updated]]
                      /\ remote_clock' = updated
                      /\ UISend("update_task",
                                <<t[1], t[2], t[3], t[4], updated>>, FALSE)
                      /\ last_push' = [id |-> t[1], gid |-> t[5],
                                       updated |-> updated]
                /\ UNCHANGED <<remote_seq, failures, failed_calls, created>>
           ELSE /\ failures' = IF outcome = "ok" THEN failures
                               ELSE failures + 1
                /\ failed_calls' = failed_calls \cup
                      {FailedCall("update", t[1],
                                  IF outcome = "ok" THEN "404" ELSE outcome)}
                /\ UNCHANGED <<gwVars, storeVars, callVars, exitVars, remote, remote_seq,
                               remote_clock, last_push, created>>
    /\ Advance3(IF outcome = "ok" /\ local_tasks[idx][5] \notin DOMAIN remote
                THEN "404" ELSE outcome)

\* Step 4, lines 1495-1510, for one task of remote_tasks_map.
Step4 ==
    /\ pc = "step4"
    /\ LET remote_task == remote_tasks[idx]
           google_id == remote_task.id
           local_task == LocalMap(local_tasks, google_id)
       IN  IF ~InLocalMap(local_tasks, google_id)
           THEN /\ RoomForTask
                /\ UISend("insert_task",
                          <<remote_task.title, remote_task.updated, google_id,
                            remote_task.status>>, FALSE)
           ELSE IF remote_task.updated > local_task[6]
           THEN UISend("update_task",
                       <<local_task[1], remote_task.title, remote_task.status,
                         local_task[4], remote_task.updated>>, FALSE)
           ELSE UNCHANGED <<gwVars, storeVars, callVars, exitVars>>
    /\ pc' = From4(idx + 1, remote_tasks)[1]
    /\ idx' = From4(idx + 1, remote_tasks)[2]
    /\ UNCHANGED <<suspended, presses, setup_done, load_after, task_list, edit_task, task_list_id,
                   deleted_google_ids, local_tasks, remote_tasks, remoteVars,
                   histVars>>

\* sync_google_tasks, line 1366: load_local_tasks, its awaited get_tasks ...
SyncReload ==
    /\ pc = "sync_reload"
    /\ UISend("get_tasks", <<>>, TRUE)
    /\ pc' = "sync_loaded"
    /\ UNCHANGED <<suspended, presses, setup_done, load_after, task_list, edit_task, runVars,
                   remoteVars, histVars>>

\* ... the Treeview rebuilt, and "Sync with Google Tasks complete!" (line 1367).
SyncLoaded ==
    /\ pc = "sync_loaded"
    /\ UIReceive
    /\ task_list' = TreeOf(ret'[UI])
    /\ EndRun("")
    /\ UNCHANGED <<setup_done, load_after, edit_task, remoteVars, runs, changes,
                   failures, failed_calls>>

\* ------------------------------------------------------------ the program
Next ==
    \/ InitialSetup
    \/ LoadAfterSetup
    \/ AddLocalTask
    \/ DeleteTask
    \/ ToggleStatusRead
    \/ ToggleStarredRead
    \/ ToggleGot
    \/ ToggleStatusWrite
    \/ ToggleStarredWrite
    \/ EditReload
    \/ EditLoaded
    \/ SyncRequest
    \/ PressDuringRun
    \/ DispatchPress
    \/ SyncGotSetting
    \/ \E outcome \in Outcomes : ChooseTaskList(outcome)
    \/ ChooseDialog
    \/ DialogOk
    \/ DialogClosed
    \/ Step1Start
    \/ Step1GotIds
    \/ \E outcome \in Outcomes : DeleteTombstone(outcome)
    \/ DeleteTombstoneRaises
    \/ Step2Start
    \/ Step2GotTasks
    \/ \E outcome \in Outcomes : Step2List(outcome)
    \/ Step3None
    \/ \E outcome \in Outcomes : Step3Create(outcome)
    \/ \E outcome \in Outcomes : Step3Update(outcome)
    \/ Step4
    \/ SyncReload
    \/ SyncLoaded
    \/ RemoteCreate
    \/ RemoteEdit
    \/ RemoteDelete
    \/ WorkerGet
    \/ WorkerRun

Spec == Init /\ [][Next]_vars

\* ------------------------------------------------- WorkTracker.exit_app
\* Lines 431-432: if self.is_running: self.stop_session(), by thread c.
\* stop_session sends update_session for the session in progress (line 1241);
\* the timer that sets is_running is not part of the model, so whether a
\* session is in progress is an input of exit_app.
StopSession(c, is_running) ==
    IF is_running
    THEN send_db_command(c, "update_session", <<1, 1, "notes">>, FALSE)
    ELSE UNCHANGED gwVars

QueueJoined == db_queue = <<>> /\ wpc = "get"

\* "Exit" of the menubar (line 206): exit_app in the UI thread, down to
\* db_queue.join().
MenuExit ==
    /\ pc = "idle"
    /\ suspended = 0
    /\ exit_pc = ""
    /\ \E is_running \in BOOLEAN : StopSession(UI, is_running)
    /\ exit_at' = next_id'
    /\ pc' = "join"
    /\ UNCHANGED <<storeVars, callVars, exit_pc, suspended, presses, setup_done,
                   load_after, task_list, edit_task, runVars, remoteVars,
                   histVars>>

\* db_queue.join() returns to the UI thread; exit_app returns, mainloop finds
\* the root window destroyed and returns, and the program ends.
MenuExitJoined ==
    /\ pc = "join"
    /\ QueueJoined
    /\ pc' = "exited"
    /\ UNCHANGED <<gwVars, storeVars, callVars, exitVars, suspended, presses,
                   setup_done, load_after, task_list, edit_task, runVars,
                   remoteVars, histVars>>

\* "Exit" of the tray menu (line 399): exit_app in the tray thread, down to
\* root.destroy(), which is carried out by the main loop of the UI thread.
TrayExit ==
    /\ pc \notin {"join", "exiting", "exited"}
    /\ exit_pc = ""
    /\ \E is_running \in BOOLEAN : StopSession(Tray, is_running)
    /\ exit_at' = next_id'
    /\ exit_pc' = "destroy"
    /\ UNCHANGED <<storeVars, callVars, uiVars, runVars, remoteVars, histVars>>

\* The main loop carries out the root.destroy() of the tray thread: mainloop
\* returns in the UI thread, and the tray thread goes on to db_queue.join().
TrayDestroy ==
    /\ exit_pc = "destroy"
    /\ pc = "idle"
    /\ suspended = 0
    /\ exit_pc' = "join"
    /\ pc' = "exiting"
    /\ UNCHANGED <<gwVars, storeVars, callVars, exit_at, suspended, presses,
                   setup_done, load_after, task_list, edit_task, runVars,
                   remoteVars, histVars>>

\* db_queue.join() returns to the tray thread.
TrayJoined ==
    /\ exit_pc = "join"
    /\ ProcessAlive
    /\ QueueJoined
    /\ exit_pc' = "done"
    /\ UNCHANGED <<gwVars, storeVars, callVars, exit_at, uiVars, runVars,
                   remoteVars, histVars>>

\* Lines 2416-2419: root.mainloop() has returned and the main thread leaves
\* the program; the daemon threads (worker and tray) end with it.
MainExit ==
    /\ pc = "exiting"
    /\ pc' = "exited"
    /\ UNCHANGED <<gwVars, storeVars, callVars, exitVars, suspended, presses,
                   setup_done, load_after, task_list, edit_task, runVars,
                   remoteVars, histVars>>

\* The program with its to-do list and its two ways out; synchronisation is
\* left out.
ShutdownNext ==
    \/ InitialSetup
    \/ LoadAfterSetup
    \/ AddLocalTask
    \/ DeleteTask
    \/ ToggleStatusRead
    \/ ToggleStarredRead
    \/ ToggleGot
    \/ ToggleStatusWrite
    \/ ToggleStarredWrite
    \/ EditReload
    \/ EditLoaded
    \/ WorkerGet
    \/ WorkerRun
    \/ MenuExit
    \/ MenuExitJoined
    \/ TrayExit
    \/ TrayDestroy
    \/ TrayJoined
    \/ MainExit

ShutdownSpec == Init /\ [][ShutdownNext]_vars

\* ------------------------------------------ the list request of step 2
\* Other clients fill the list: one more task is created in it.
ListGrows ==
    /\ listed = -1
    /\ remote_lists # {}
    /\ remote_seq < MaxListSize
    /\ remote' = remote @@ (GidOf(remote_seq + 1) :>
          [title |-> "a", status |-> "needsAction", updated |-> remote_clock])
    /\ remote_seq' = remote_seq + 1
    /\ UNCHANGED <<gwVars, storeVars, callVars, exitVars, uiVars, runVars,
                   remote_lists, remote_clock, histVars>>

\* Lines 1462-1463 on the list as it is: tasks().list(tasklist=task_list_id,
\* showCompleted=True, maxResults=100).execute(), and remote_tasks is the
\* 'items' of the response.
FetchList ==
    /\ listed = -1
    /\ remote_tasks' = ListPage(RemoteItems)
    /\ listed' = changes
    /\ UNCHANGED <<gwVars, storeVars, callVars, exitVars, uiVars, task_list_id,
                   deleted_google_ids, local_tasks, idx, remoteVars, runs,
                   changes, failures, sync_error, last_delete, run_deleted_ok,
                   deleted_ok, rejected, settled, last_push, created, failed_calls>>

FetchNext ==
    \/ ListGrows
    \/ FetchList

FetchSpec == Init /\ [][FetchNext]_vars

\* ------------------------------------ WorkTracker.execute_google_api_call
\* The default of the parameter max_retries.
max_retries == 3

\* What one api_call.execute() does: it returns the response, or raises
\* HttpError carrying the status of the response, or raises something else
\* (a socket or transport error).
Returned == [kind |-> "ok", status |-> 200]
HttpError(status) == [kind |-> "HttpError", status |-> status]
TransportError == [kind |-> "OSError", status |-> 0]
\* Exception(f"Google API call failed after {max_retries} retries.")
RetriesFailed == [kind |-> "Exception", status |-> 0]

Statuses == {400, 401, 404, 500, 502, 503, 504}
Responses == {Returned, TransportError} \cup {HttpError(st) : st \in Statuses}

\* A handler that retries whatever HttpError it catches.
RetryAnyStatus(status) == TRUE
\* Line 1384: if e.resp.status in [500, 503]
Retried(status) == status \in {500, 503}

\* execute_google_api_call(api_call, max_retries, initial_backoff) is entered.
CallApi ==
    /\ api_call = NoCall
    /\ \E n \in 1..MaxRetries, d \in 1..MaxBackoff :
          \E responses \in [1..n -> Responses] :
             /\ api_call' = [responses |-> responses, max_retries |-> n,
                              initial_backoff |-> d]
             /\ initial_backoff' = d
    /\ attempts' = 0
    /\ slept' = <<>>
    /\ api_result' = NoResult
    /\ UNCHANGED <<gwVars, storeVars, uiVars, runVars, remoteVars, histVars,
                   exitVars>>

\* One iteration of the loop, lines 1379-1393: api_call.execute() and the
\* handler of what it raised.
Attempt ==
    /\ api_call # NoCall
    /\ api_result = NoResult
    /\ attempts < api_call.max_retries
    /\ attempts' = attempts + 1
    /\ LET r == api_call.responses[attempts + 1]
       IN  IF r.kind = "ok"
           THEN /\ api_result' = [how |-> "return", value |-> r]
                /\ UNCHANGED <<slept, initial_backoff>>
           ELSE IF r.kind = "HttpError" /\ Retried(r.status)
           THEN /\ slept' = Append(slept, initial_backoff)
                /\ initial_backoff' = initial_backoff * 2
                /\ UNCHANGED api_result
           ELSE /\ api_result' = [how |-> "raise", value |-> r]
                /\ UNCHANGED <<slept, initial_backoff>>
    /\ UNCHANGED api_call
    /\ UNCHANGED <<gwVars, storeVars, uiVars, runVars, remoteVars, histVars,
                   exitVars>>

\* Line 1395, after the loop: raise Exception(...).
RaiseAfterLoop ==
    /\ api_call # NoCall
    /\ api_result = NoResult
    /\ attempts = api_call.max_retries
    /\ api_result' = [how |-> "raise", value |-> RetriesFailed]
    /\ UNCHANGED <<api_call, initial_backoff, attempts, slept>>
    /\ UNCHANGED <<gwVars, storeVars, uiVars, runVars, remoteVars, histVars,
                   exitVars>>

ExecutorNext ==
    \/ CallApi
    \/ Attempt
    \/ RaiseAfterLoop

ExecutorSpec == Init /\ [][ExecutorNext]_vars

\* ================================================= properties of the gateway
\* C1: whatever the callers do, the store changes only in the worker's step
\* on the command it holds, and at most one command is executing against
\* the store at any instant.
OneCommandAtATime ==
    /\ [](Cardinality(open_cmds) <= 1)
    /\ [](open_cmds # {} => wpc = "run" /\ open_cmds = {cur.id})
    /\ [][storeVars' # storeVars => wpc = "run" /\ open_cmds = {cur.id}]_vars

\* A command of one caller is executing while a command of another waits.
TwoCallersContend ==
    /\ wpc = "run"
    /\ open_cmds = {cur.id}
    /\ db_queue # <<>>
    /\ db_queue[1].caller # cur.caller

\* C2: commands are executed in the order they were enqueued, whoever
\* enqueued them: the command executing is the one enqueued right after the
\* last one executed, and the queue holds the following ones in order.
FifoOrder ==
    LET taken == IF wpc = "run" THEN 1 ELSE 0
    IN  /\ wpc = "run" => cur.id = last_run + 1
        /\ \A i \in 1..Len(db_queue) : db_queue[i].id = last_run + taken + i
        /\ next_id = last_run + taken + Len(db_queue)

\* An awaited read has returned the value that a command enqueued before it
\* wrote, and it was the last of three commands.
ReadSawEarlierWrite ==
    \E c \in CallerIds :
        /\ asked[c] = MaxCmds
        /\ waiting[c] = 0
        /\ ret[c] = Str("L1")

\* C3: what an awaited send_db_command returns to a caller is what the
\* worker put for that very command.
OwnResult ==
    \A c \in CallerIds :
        asked[c] # 0 /\ waiting[c] = 0 =>
            /\ asked[c] \in DOMAIN answer
            /\ SameResult(ret[c], answer[asked[c]])

\* Two callers have each received the result of an awaited command, and the
\* two results differ.
TwoCallersAnswered ==
    \E c, d \in CallerIds :
        /\ c # d
        /\ asked[c] # 0 /\ waiting[c] = 0
        /\ asked[d] # 0 /\ waiting[d] = 0
        /\ ret[c] # None /\ ret[d] # None
        /\ ~SameResult(ret[c], ret[d])

\* C4: an awaited command the worker has processed has its response: the
\* caller blocked on it finds the response in its result queue.
AwaitedCommandAnswered ==
    \A c \in CallerIds :
        waiting[c] # 0 /\ asked[c] <= last_run =>
            waiting[c] \in DOMAIN result_queue

\* C5: a command whose execution raises gives its awaiting caller None, and
\* the worker is never stopped by it.
ErrorsAbsorbed ==
    /\ wpc # "dead"
    /\ \A c \in CallerIds :
          asked[c] \in raised =>
             /\ waiting[c] = 0 => ret[c] = None
             /\ waiting[c] # 0 /\ asked[c] <= last_run =>
                   /\ waiting[c] \in DOMAIN result_queue
                   /\ result_queue[waiting[c]] = <<None>>

\* A caller got None for a command that raised, and a command enqueued after
\* it has been executed and has answered another caller.
RaisedThenServed ==
    \E c, d \in CallerIds :
        /\ asked[c] \in raised /\ waiting[c] = 0 /\ ret[c] = None
        /\ asked[d] > asked[c] /\ waiting[d] = 0 /\ ret[d] = Bool(TRUE)

\* ======================================== properties of the synchronisation
NoRowHolds(google_id) ==
    \A i \in 1..Len(tasks) : tasks[i].google_task_id # google_id
IsPurgeOf(cmd, google_id) ==
    cmd.op = "purge_deleted_task" /\ cmd.args = <<google_id>>
PurgePending(google_id) ==
    \/ IsPurgeOf(cur, google_id)
    \/ \E i \in 1..Len(db_queue) : IsPurgeOf(db_queue[i], google_id)

UniqueRemoteId ==
    \A i, j \in 1..Len(tasks) :
        i # j /\ tasks[i].google_task_id # NULL =>
            tasks[i].google_task_id # tasks[j].google_task_id

\* C8: once a run has deleted a tombstoned task remotely, the task is absent
\* from the remote list, its row is purged by the time the run has read the
\* local tasks and stays absent, and no later run asks to delete it again.
TombstoneConverges ==
    /\ \A g \in run_deleted_ok \cup deleted_ok :
          /\ g \notin DOMAIN remote
          /\ PurgePending(g) \/ NoRowHolds(g)
    /\ \A g \in run_deleted_ok :
          pc \in {"remote_list", "step3", "step4", "sync_reload", "sync_loaded"}
             => NoRowHolds(g)
    /\ \A g \in deleted_ok :
          /\ pc \in SyncPcs \ {"get_setting"} => NoRowHolds(g)
          /\ \A i \in 1..Len(deleted_google_ids) :
                deleted_google_ids[i][1] # g

\* A run deleted a tombstoned task remotely, and a later run has been through
\* its tombstone step.
LaterRunAfterDelete ==
    /\ deleted_ok # {}
    /\ pc = "step2"
    /\ sync_error = ""

\* C9: an error of the remote delete of a tombstone never ends the run.
DeleteErrorDoesNotEndRun == sync_error # "delete"

\* C10: when the remote delete of a tombstone answers 404, the purge of the
\* row is sent at once, and the row is gone when the run has read the local
\* tasks.
NotFoundPurges ==
    last_delete.outcome = "404" =>
        /\ PurgePending(last_delete.gid) \/ NoRowHolds(last_delete.gid)
        /\ pc \in {"remote_list", "step3", "step4", "sync_reload", "sync_loaded"}
              => NoRowHolds(last_delete.gid)

\* The delete of a tombstone answered 404 and the run has read the local tasks.
NotFoundPurged ==
    /\ last_delete.outcome = "404"
    /\ pc = "remote_list"
    /\ NoRowHolds(last_delete.gid)

\* Every command the UI thread has sent has been executed by the worker.
Drained == db_queue = <<>> /\ wpc = "get"
\* The run has been through steps 1 to 4 and what it wrote is in the table.
RunWritten == pc = "sync_loaded" /\ Drained
\* The row with this id holds this title, status and last_modified.
RowHolds(local_id, title, status, last_modified) ==
    /\ RowsWithId(tasks, local_id) # {}
    /\ \A i \in RowsWithId(tasks, local_id) :
          /\ tasks[i].title = title
          /\ tasks[i].status = status
          /\ tasks[i].last_modified = last_modified
\* The remote tasks of the list fetched that have a local counterpart older
\* than they are.
RemoteNewer ==
    {i \in 1..Len(remote_tasks) :
        /\ InLocalMap(local_tasks, remote_tasks[i].id)
        /\ remote_tasks[i].updated >
              LocalMap(local_tasks, remote_tasks[i].id)[6]}

\* C12: when the run has written what it had to, the local row of every
\* remote task that was strictly newer than its local counterpart holds the
\* title, the status and the last_modified of the remote task.
RemoteNewerAdopted ==
    RunWritten =>
        \A i \in RemoteNewer :
            RowHolds(LocalMap(local_tasks, remote_tasks[i].id)[1],
                     remote_tasks[i].title, remote_tasks[i].status,
                     remote_tasks[i].updated)

\* Nothing was changed by the user or by another client since the run
\* fetched the remote list, and no remote call has failed.
RunUndisturbed == listed = changes /\ failures = 0
\* The local tasks of the run that are in the remote list fetched with another
\* last_modified than the remote copy.
InConflict ==
    {i \in 1..Len(local_tasks) :
        /\ local_tasks[i][5] # NULL
        /\ InRemoteMap(remote_tasks, local_tasks[i][5])
        /\ local_tasks[i][6] #
              RemoteMap(remote_tasks, local_tasks[i][5]).updated}

\* C11: after an undisturbed run, for every task held by both sides with
\* different last_modified values, the two sides hold the title and the
\* status of the side whose value was the larger, and they hold the same
\* last_modified.
ConflictResolved ==
    RunWritten /\ RunUndisturbed =>
        \A i \in InConflict :
            LET lt == local_tasks[i]
                rt == RemoteMap(remote_tasks, lt[5])
                title == IF lt[6] > rt.updated THEN lt[2] ELSE rt.title
                status == IF lt[6] > rt.updated THEN lt[3] ELSE rt.status
            IN  /\ lt[5] \in DOMAIN remote
                /\ remote[lt[5]].title = title
                /\ remote[lt[5]].status = status
                /\ RowHolds(lt[1], title, status, remote[lt[5]].updated)

\* C13: when the run has written what it had to, the remote copy of every
\* local task that was strictly newer than it holds the title and the status
\* of the local task (nobody else having changed it since), and the
\* last_modified of the row pushed is the 'updated' value the service
\* returned for the update.
PushWrittenBack ==
    RunWritten =>
        /\ RunUndisturbed =>
              \A i \in 1..Len(local_tasks) :
                  Step3Kind(local_tasks[i]) = "update" =>
                      /\ local_tasks[i][5] \in DOMAIN remote
                      /\ remote[local_tasks[i][5]].title = local_tasks[i][2]
                      /\ remote[local_tasks[i][5]].status = local_tasks[i][3]
        /\ last_push.id # 0 =>
              \A i \in RowsWithId(tasks, last_push.id) :
                  tasks[i].last_modified = last_push.updated

\* The commands of a run that write to the tasks table.
SyncWrites ==
    {"insert_task", "update_task", "update_task_with_google_id",
     "purge_deleted_task"}
\* The run in progress follows a run that ended in success, nothing has been
\* changed by the user or by another client since that run listed the remote
\* tasks, and no remote call has failed.
SecondRunNoChange ==
    /\ pc \in SyncPcs
    /\ settled = changes
    /\ changes' = changes
    /\ failures' = 0

\* C14: a run that follows a successful run with no change on either side in
\* between sends no write command to the store and makes no create, update
\* or delete call to the remote service.
SecondRunWritesNothing ==
    [][SecondRunNoChange =>
          /\ remote' = remote
          /\ next_id' > next_id =>
                db_queue'[Len(db_queue')].op \notin SyncWrites]_vars

\* The local tasks of the run that had no google id.
Unsynced == {i \in 1..Len(local_tasks) : local_tasks[i][5] = NULL}
RowsHolding(google_id) ==
    {i \in 1..Len(tasks) : tasks[i].google_task_id = google_id}
\* The remote tasks that were not in the list the run fetched.
CreatedSinceList ==
    {g \in DOMAIN remote : ~InRemoteMap(remote_tasks, g)}

\* C15: after an undisturbed run, every local task that had no google id
\* holds the id of a remote task that was not in the list fetched, no other
\* row holds that id, the remote task has the title and the status of the
\* local task, the row's last_modified is the 'updated' value of the remote
\* task, and the run created no other remote task.
CreationRoundTrip ==
    RunWritten /\ RunUndisturbed =>
        /\ \A i \in Unsynced :
              \A j \in RowsWithId(tasks, local_tasks[i][1]) :
                  /\ tasks[j].google_task_id \in CreatedSinceList
                  /\ RowsHolding(tasks[j].google_task_id) = {j}
                  /\ remote[tasks[j].google_task_id].title = local_tasks[i][2]
                  /\ remote[tasks[j].google_task_id].status = local_tasks[i][3]
                  /\ tasks[j].last_modified =
                        remote[tasks[j].google_task_id].updated
        /\ Cardinality(CreatedSinceList) = Cardinality(Unsynced)

\* A run has created a local task remotely at a time other than the task's
\* last_modified, and has written what it had to.
CreatedRemotely ==
    /\ RunWritten
    /\ RunUndisturbed
    /\ \E i \in Unsynced :
          \E j \in RowsWithId(tasks, local_tasks[i][1]) :
              /\ tasks[j].google_task_id \in DOMAIN remote
              /\ local_tasks[i][6] # remote[tasks[j].google_task_id].updated

\* The remote tasks of the list fetched that had no local counterpart.
UnknownLocally ==
    {i \in 1..Len(remote_tasks) : ~InLocalMap(local_tasks, remote_tasks[i].id)}
LiveRowsHolding(google_id) ==
    {i \in RowsHolding(google_id) : tasks[i].deleted = 0}
LocalIds == {local_tasks[i][1] : i \in 1..Len(local_tasks)}

StarredKept ==
    \A i \in 1..Len(tasks), j \in 1..Len(tasks') :
        tasks[i].id = tasks'[j].id => tasks[i].starred = tasks'[j].starred

\* C17: no step taken while a run is in progress, and no execution of a write
\* command of a run, changes the starred flag of a row that is in the table
\* before and after it.
StarredUntouched ==
    [][(pc \in SyncPcs \/ cur.op \in SyncWrites) => StarredKept]_vars

\* A run has pushed a starred task to the remote service and has sent the
\* update of its row, and the worker has executed it.
StarredPushed ==
    /\ RunWritten
    /\ \E i \in RowsWithId(tasks, last_push.id) : tasks[i].starred = 1

\* C18: the step in which the fetch of the remote list fails ends the run
\* with that one error, sends no command and makes no remote change (steps 3
\* and 4 are not entered), and leaves the table, the commands waiting and the
\* remote list as step 1 left them; the tasks step 1 deleted remotely stay
\* deleted and their purge stays done or waiting.
ListFailureAborts ==
    /\ [][pc = "remote_list" /\ failures' > failures =>
             /\ pc' \notin SyncPcs
             /\ ActiveRuns' = 0
             /\ sync_error' = "list"
             /\ UNCHANGED <<db_queue, next_id, tasks, remote>>]_vars
    /\ [](sync_error = "list" =>
             \A g \in deleted_ok :
                 /\ g \notin DOMAIN remote
                 /\ PurgePending(g) \/ NoRowHolds(g))

\* The first run deleted a tombstoned task remotely, its fetch of the remote
\* list failed, and the purge of the row has been executed since.
AbortedAfterPurge ==
    /\ sync_error = "list"
    /\ runs = 1
    /\ pc = "idle"
    /\ \E g \in deleted_ok : NoRowHolds(g) /\ ~PurgePending(g)

\* The local tasks whose remote create or update raised in the run.
Skipped ==
    {f.task : f \in {g \in failed_calls : g.call \in {"insert", "update"}}}

\* C19: a remote create or update that raises in step 3 is followed by the
\* next task of the loop; when the run has written what it had to, every
\* other local task without google id has been created remotely and every
\* remote task unknown locally has been inserted; and a run that comes to
\* its end reports no error.
ErrorSkipsOneTask ==
    /\ [][pc = "step3" /\ failed_calls' # failed_calls =>
             /\ <<pc', idx'>> = From3(idx + 1, local_tasks, remote_tasks)
             /\ UNCHANGED <<local_tasks, remote_tasks, sync_error>>]_vars
    /\ [](RunWritten /\ Skipped # {} =>
             /\ \A i \in Unsynced :
                   local_tasks[i][1] \notin Skipped =>
                       \A j \in RowsWithId(tasks, local_tasks[i][1]) :
                           /\ tasks[j].google_task_id # NULL
                           /\ ~InRemoteMap(remote_tasks,
                                           tasks[j].google_task_id)
             /\ \A i \in UnknownLocally :
                   LiveRowsHolding(remote_tasks[i].id) # {})
    /\ [][pc = "sync_loaded" /\ pc' # pc => sync_error' = ""]_vars

\* The remote create of one local task raised, and the run has created the
\* other local task remotely and has come to its end.
OtherTaskCreated ==
    /\ RunWritten
    /\ Skipped # {}
    /\ \E i \in Unsynced :
          /\ local_tasks[i][1] \notin Skipped
          /\ \E j \in RowsWithId(tasks, local_tasks[i][1]) :
                tasks[j].google_task_id \in DOMAIN remote

\* execute_google_api_call, line 1377: the attempts it makes of a call that
\* keeps failing with a server error.

\* C20: a remote call of a run that has failed with an HttpError other than
\* 404 (a status 500 or 503 is one) has been issued max_retries times before
\* it counted as failed.
RunCallsRetried ==
    \A f \in failed_calls :
        f.outcome = "http_error" => f.attempts = max_retries

\* ============================================== properties of the executor
\* A transient failure: an HttpError whose status is of the 5xx class.
Transient(r) == r.kind = "HttpError" /\ r.status \in 500..599
\* A permanent failure: any other HttpError, or an exception that is not an
\* HttpError.
Permanent(r) == r.kind # "ok" /\ ~Transient(r)
\* The request fails with a transient error exactly k times and then succeeds.
FailsThenSucceeds(k) ==
    /\ k < Len(api_call.responses)
    /\ \A j \in 1..k : Transient(api_call.responses[j])
    /\ api_call.responses[k + 1] = Returned

\* C21: a call that fails with a transient error exactly k times, k below
\* max_retries, and then succeeds makes at most k+1 attempts, and what the
\* executor ends with is the return of that success after exactly k+1
\* attempts.
RetriedUntilSuccess ==
    \A k \in 0..(api_call.max_retries - 1) :
       FailsThenSucceeds(k) =>
          /\ attempts <= k + 1
          /\ api_result # NoResult =>
                /\ api_result = [how |-> "return", value |-> Returned]
                /\ attempts = k + 1

AllTransient ==
    /\ api_call # NoCall
    /\ \A j \in 1..api_call.max_retries : Transient(api_call.responses[j])

\* C22: a call that fails with a transient error on all max_retries attempts
\* ends, after exactly max_retries attempts, by raising the terminal failure,
\* which is none of the failures a single attempt raises.
ExhaustionRaisesTerminal ==
    AllTransient =>
       /\ attempts <= api_call.max_retries
       /\ api_result # NoResult =>
             /\ api_result = [how |-> "raise", value |-> RetriesFailed]
             /\ RetriesFailed \notin Responses
             /\ attempts = api_call.max_retries

\* C23: no failure of the 5xx class is propagated as it is: while attempts
\* are left it is retried, and the executor never raises the HttpError of a
\* 5xx status to its caller.
ServerErrorsRetried ==
    ~(api_result.how = "raise" /\ Transient(api_result.value))

\* C24: an attempt that fails with anything but a 5xx-class error is the last
\* one: the executor has raised that very failure, and has slept only after
\* the attempts before it.
PermanentNotRetried ==
    \A j \in 1..attempts :
       Permanent(api_call.responses[j]) =>
          /\ attempts = j
          /\ api_result = [how |-> "raise", value |-> api_call.responses[j]]
          /\ Len(slept) = j - 1
\* A 404 on the second attempt, after a 500 that was retried.
NotFoundAfterRetry ==
    /\ attempts = 2
    /\ Len(slept) = 1
    /\ api_result = [how |-> "raise", value |-> HttpError(404)]

\* ======================================= properties of the store's lifetime
\* C25: the worker processes no command before INIT_DB: whenever it holds a
\* command other than INIT_DB, the store has been initialised.
InitProcessedFirst ==
    (wpc = "run" /\ cur.op # "INIT_DB") => db # NULL

\* The worker is executing INIT_DB, and the command does not raise.
RunsInit == wpc = "run" /\ Branch(cur) = "init"
InitKeepsRows ==
    /\ tasks' = tasks
    /\ task_seq' = task_seq
    /\ settings' = settings
    /\ categories \subseteq categories'
    /\ categories # {} => categories' = categories

\* C26: processing INIT_DB leaves every row of the store as it was: no task,
\* setting or category is changed or removed, and nothing is added to a
\* table that has rows; and what create_tables makes of the categories table
\* is left as it is by a second create_tables.
InitIdempotent ==
    /\ [][RunsInit => InitKeepsRows]_vars
    /\ [](create_tables(create_tables(categories)) = create_tables(categories))
\* INIT_DB is being processed a second time, on a store that holds a task
\* and a setting, and from which a default category was deleted.
SecondInit ==
    /\ RunsInit
    /\ db # NULL
    /\ tasks # <<>>
    /\ settings # <<>>
    /\ categories = default_categories \ {"Work"}

\* C27: when the program has ended, every command that was enqueued when
\* exit_app reached root.destroy() has been executed by the worker.
DrainedBeforeExit ==
    pc = "exited" => exit_at <= last_run

\* C28: once exit_app has reached root.destroy(), no further command is put
\* on the queue.
NoSubmitAfterShutdown ==
    exit_at >= 0 => next_id = exit_at

\* ===================================================== properties of tombstones
Listed(T) == get_tasks(T)
\* C29: a row marked deleted is not among the rows get_tasks returns, and
\* neither is any other row that holds its google_task_id.
TombstoneHidden ==
    \A i \in 1..Len(tasks) :
       tasks[i].deleted = 1 =>
          \A k \in 1..Len(Listed(tasks)) :
             /\ Listed(tasks)[k][1] # tasks[i].id
             /\ tasks[i].google_task_id # NULL =>
                   Listed(tasks)[k][5] # tasks[i].google_task_id

\* ============================================ properties of the list request
\* C30: whatever the size of the remote list, every task it holds when it is
\* fetched is in the remote_tasks that steps 3 and 4 index by id.
EveryRemoteTaskRead ==
    listed # -1 => \A g \in DOMAIN remote : InRemoteMap(remote_tasks, g)

\* ================================================ properties of last_modified
\* The step leaves the last_modified of no row lower than it was.
LastModifiedKept ==
    \A i \in 1..Len(tasks), j \in 1..Len(tasks') :
        tasks[i].id = tasks'[j].id =>
            tasks'[j].last_modified >= tasks[i].last_modified
\* The worker executes an edit of the to-do list whose timestamp is below the
\* one stored: the clock of the machine was set back between the two edits.
LocalClockSetBack ==
    /\ wpc = "run"
    /\ cur.op \in {"update_task_status", "update_task_starred"}
    /\ Len(cur.args) = 3
    /\ \E i \in 1..Len(tasks) :
          tasks[i].id = cur.args[1] /\ cur.args[3] < tasks[i].last_modified

\* C31: as long as the clock of the machine is not set back, no step lowers
\* the last_modified of a row, whatever 'updated' values the remote service
\* assigns.
LastModifiedMonotone ==
    [][~LocalClockSetBack => LastModifiedKept]_vars

\* The step leaves the last_modified of every row as it was.
LastModifiedSame ==
    \A i \in 1..Len(tasks), j \in 1..Len(tasks') :
        tasks[i].id = tasks'[j].id =>
            tasks'[j].last_modified = tasks[i].last_modified

\* C32: the execution of a toggle of the starred flag, or of the marking of
\* a task as deleted, leaves the last_modified of every row as it was.
StarredKeepsLastModified ==
    [][(wpc = "run" /\ cur.op \in {"update_task_starred", "mark_task_deleted"})
          => LastModifiedSame]_vars

\* ================================================== properties of the backoff
\* The delays slept so far are d, 2d, 4d, ... for the initial_backoff d of
\* the call.
DelaysDouble ==
    \A k \in 1..Len(slept) : slept[k] = api_call.initial_backoff * 2^(k - 1)
\* Every delay slept is followed by an attempt: when the call is over there
\* is one delay less than there were attempts.
DelaysBetweenAttempts ==
    api_result # NoResult => Len(slept) < attempts

\* C33: the delay before the i-th retry is d * 2^(i-1), and a delay is waited
\* only between two attempts.
ExponentialBackoff == DelaysDouble /\ DelaysBetweenAttempts

\* ================================================== properties of the binding
Bound == "google_task_list_id" \in DOMAIN settings
\* The one run made so far is over and ended with an error, and no task was
\* ever created in the account: no earlier session has synchronised.
FirstRunFailed ==
    /\ runs = 1
    /\ ActiveRuns = 0
    /\ sync_error # ""
    /\ remote_seq = 0

\* C34: a first run that ends with an error leaves no binding in the
\* settings.
NoBindingAfterFailure == FirstRunFailed => ~Bound

\* ============================================ properties of orphaned google ids
\* The tasks of the local snapshot whose google id is not in the list fetched.
Orphans ==
    {k \in 1..Len(local_tasks) :
        /\ local_tasks[k][5] # NULL
        /\ ~InRemoteMap(remote_tasks, local_tasks[k][5])}
TaskCalls == {f \in failed_calls : f.call \in {"insert", "update"}}

\* C35: from the fetch of the remote list to the end of the run, a task of the
\* to-do list whose google id is not in the list fetched keeps its row as
\* step 2 read it (title, status, starred, google id, last_modified, not
\* deleted), and no remote create or update is issued for it.
OrphanLeftAlone ==
    (pc \in SyncPcs /\ listed # -1) =>
        \A k \in Orphans :
           LET t == local_tasks[k]
           IN  /\ \E i \in 1..Len(tasks) :
                     tasks[i] = Row(t[1], t[2], t[3], t[4], t[5], t[6], 0)
               /\ last_push.id # t[1]
               /\ \A f \in TaskCalls : f.task # t[1]
\* A run has been through steps 3 and 4 with a task whose remote copy was
\* deleted by another client, and a newer local edit of it.
OrphanAfterRun ==
    /\ RunWritten
    /\ listed # -1
    /\ \E k \in Orphans : local_tasks[k][6] > 1

\* ===================================== properties of commands before INIT_DB
\* The worker finishes a command other than INIT_DB while self.db is None.
RunsUninitialised ==
    /\ wpc = "run"
    /\ wpc' # "run"
    /\ db = NULL
    /\ cur.op # "INIT_DB"
Discarded ==
    /\ storeVars' = storeVars
    /\ db' = NULL
    /\ cur.rq # 0 =>
          /\ cur.rq \in DOMAIN result_queue'
          /\ result_queue'[cur.rq] = <<None>>
    /\ cur' = NoCmd
    /\ \A k \in 1..Len(db_queue') : db_queue'[k].id # cur.id

\* C36: a command the worker processes before INIT_DB leaves the store as it
\* is, None is put on its result queue when the caller awaits it, and the
\* command is dropped: it is neither held by the worker nor back on the queue.
UninitialisedDiscarded == [][RunsUninitialised => Discarded]_vars
\* A caller's awaited command was processed before any INIT_DB, and None was
\* put for it.
SkippedBeforeInit ==
    /\ db = NULL
    /\ raised = {}
    /\ wpc = "get"
    /\ last_run > 0
    /\ \E c \in CallerIds : asked[c] = last_run
    /\ last_run \in DOMAIN answer
    /\ answer[last_run] = None

\* A row marked deleted that holds no google_task_id.
NullTombstone(r) == r.deleted = 1 /\ r.google_task_id = NULL

\* What a step leaves of such a row: the row itself, in no snapshot of
\* step 2, in no list of step 1, the subject of no call to the service.
NullTombstoneUntouched ==
    \A i \in 1..Len(tasks) :
       NullTombstone(tasks[i]) =>
          /\ \E j \in 1..Len(tasks') : tasks'[j] = tasks[i]
          /\ \A k \in 1..Len(get_tasks(tasks)) :
                get_tasks(tasks)[k][1] # tasks[i].id
          /\ \A k \in 1..Len(local_tasks') : local_tasks'[k][1] # tasks[i].id
          /\ \A k \in 1..Len(get_deleted_task_ids(tasks)) :
                get_deleted_task_ids(tasks)[k][1] # NULL
          /\ \A k \in 1..Len(deleted_google_ids') :
                deleted_google_ids'[k][1] # NULL
          /\ last_push' # last_push => last_push'.id # tasks[i].id
          /\ last_delete' \notin {last_delete, NoDelete} => last_delete'.gid # NULL
          /\ \A f \in failed_calls' \ failed_calls :
                /\ f.call \in {"insert", "update"} => f.task # tasks[i].id
                /\ f.call = "delete" => f.task # NULL

\* C37: a task marked deleted while it holds no google_task_id is read by
\* no get_tasks and no get_deleted_task_ids, so no run creates, updates or
\* deletes it on the service and no step removes its row.
NullTombstoneIgnored == [][NullTombstoneUntouched]_vars

\* A run went through all four steps while such a row was in the table.
NullTombstoneAfterRun ==
    /\ RunWritten
    /\ sync_error = ""
    /\ \E i \in 1..Len(tasks) : NullTombstone(tasks[i])

\* Step 1 handles the first tombstone of its list and the request is answered.
TombstoneHandled ==
    /\ pc = "delete"
    /\ deleted_google_ids' = Tail(deleted_google_ids)
    /\ failures' = failures

\* The task is gone from the list once the request has been answered.
DeletedRemotely ==
    LET google_id == deleted_google_ids[1][1]
    IN  /\ google_id \notin DOMAIN remote'
        /\ last_delete'.gid = google_id
        /\ google_id \in DOMAIN remote => last_delete'.outcome = "ok"

\* C38: step 1 deletes on the service every task whose row is marked
\* deleted, whatever last_modified and 'updated' are: also a task that was
\* changed on the service after the row was last modified.
LocalDeletionWins == [][TombstoneHandled => DeletedRemotely]_vars

\* A task was deleted on the service whose 'updated' was later than the
\* last_modified of its row, which step 1 has yet to purge.
NewerRemoteDeleted ==
    /\ last_delete.outcome = "ok"
    /\ last_delete.gid \notin DOMAIN remote
    /\ \E i \in 1..Len(tasks) :
          /\ tasks[i].google_task_id = last_delete.gid
          /\ tasks[i].deleted = 1
          /\ tasks[i].last_modified < last_delete.updated

\* ================================================ properties of the snapshots
\* The run goes on within steps 3 and 4.
InSteps34 ==
    /\ pc \in {"step3", "step4"}
    /\ pc' \in {"step3", "step4", "sync_reload"}
SnapshotsKept == local_tasks' = local_tasks /\ remote_tasks' = remote_tasks

\* Step 4 handles one task of remote_tasks_map and sends a command for it.
Step4Sends ==
    /\ pc = "step4"
    /\ <<pc', idx'>> # <<pc, idx>>
    /\ Len(db_queue') = Len(db_queue) + 1
\* What step 4 sends is decided on the two snapshots: a row is inserted for a
\* task of the list fetched that no task read in step 2 holds, and a row is
\* overwritten only when step 3 has made no request for it.
SentOnSnapshots ==
    LET cmd == db_queue'[Len(db_queue')]
    IN  /\ cmd.op \in {"insert_task", "update_task"}
        /\ cmd.op = "insert_task" =>
              /\ InRemoteMap(remote_tasks, cmd.args[3])
              /\ ~InLocalMap(local_tasks, cmd.args[3])
              /\ cmd.args[3] \notin CreatedSinceList
        /\ cmd.op = "update_task" =>
              \A k \in 1..Len(local_tasks) :
                  local_tasks[k][1] = cmd.args[1] =>
                      Step3Kind(local_tasks[k]) = "none"

\* No row marked deleted holds this google id.
NoTombstoneHolds(google_id) ==
    \A i \in RowsHolding(google_id) : tasks[i].deleted = 0
\* When a run has written what it had to, every task that a step 3 of this
\* run or of an earlier one created, that is still on the service and that
\* the user has not deleted, is held by exactly one row.
OneRowPerTask ==
    RunWritten =>
        \A g \in created \cap DOMAIN remote :
            NoTombstoneHolds(g) => Cardinality(RowsHolding(g)) = 1

\* C39: steps 3 and 4 work on the lists read in step 2: step 4 inserts no row
\* for a task that step 3 created, overwrites no row that step 3 pushed or
\* created, and at the end of that run and of every later one each task of
\* that step 3 created is held by exactly one row, unless it was deleted on
\* either side.
SnapshotReconciliation ==
    /\ [][InSteps34 => SnapshotsKept]_vars
    /\ [][Step4Sends => SentOnSnapshots]_vars
    /\ []OneRowPerTask

\* A second run has read, on both sides, the task that step 3 of an earlier
\* run created, and has written what it had to.
CreatedTaskReadAgain ==
    /\ RunWritten
    /\ runs > 1
    /\ failures = 0
    /\ \E g \in created :
          /\ InRemoteMap(remote_tasks, g)
          /\ InLocalMap(local_tasks, g)
          /\ Cardinality(RowsHolding(g)) = 1
====
